---- MODULE Spec2Model ----
(***************************************************************************)
(* A model of qan::Graph (src/src/qanGraph.cpp): the topology store with   *)
(* its nodes, edges and groups, the two selection vectors, the z           *)
(* high-water mark and the ports edges are bound to.                       *)
(*                                                                         *)
(* An entity is designated by a small integer (its address); 0 is nullptr. *)
(* Addresses are never reused, so a reference to a destroyed entity stays  *)
(* recognisable as dangling.  The operations of qan::Graph are operators   *)
(* from a state record to the state record after the call; an action       *)
(* applies one of them to the current state and records the call in last.  *)
(* The base class gtpo::graph is not part of the source file: its          *)
(* operations (gtpo_...) are modelled from the specification.              *)
(***************************************************************************)
EXTENDS Integers, Sequences, FiniteSets, TLC

\* ------------------------------------------------------------------ bounds
\* Entities (nodes and groups) ever created.
MaxEnt == 3
\* Edges ever created.
MaxEdges == 2
\* Cap of the z high-water mark _maxZ.
MaxZ == 3
\* Cap of _maxZ where sendToFront is called.
MaxFrontZ == 6
\* Ports ever created.
MaxPorts == 2
\* Cap of the length of a port's list of bound edge items.
MaxBound == 2
\* Nodes of a graph whose ports are exercised.
MaxBindNodes == 1
\* Nodes of the specification of port removal.
MaxPortNodes == 2
\* Items handed to an alignment call.
MaxAlign == 3

\* nullptr; also the graph container item as a visual parent.
NULL == 0

\* std::numeric_limits<qreal>::min(): the least positive normal qreal.  It is
\* above 0, below every positive coordinate of the grid, and rounded away in
\* a difference with a size of at least one unit, so on the integer grid it
\* stands where 0 stands.
QrealMin == 0
\* std::numeric_limits<qreal>::max(): above every coordinate.
QrealMax == 1000

Ids == 1 .. MaxEnt
EdgeIds == 1 .. MaxEdges
PortIds == 1 .. MaxPorts
\* A live node, and a live group, that were never inserted in the graph.
UNODE == MaxEnt + 1
UGROUP == MaxEnt + 2

VARIABLES
    nodes,          \* gtpo _nodes: the owned entities, in insertion order
    isGroup,        \* isGroup[n]: n is a qan::Group
    item,           \* item[n]: n->getItem() != nullptr
    edges,          \* the owned edges: records [id, src, dst, srcPort, dstPort]
    nextId,         \* entities created so far
    nextEdge,       \* edges created so far
    group,          \* group[n]: n->get_group().lock(), NULL when ungrouped
    members,        \* members[g]: g->get_nodes(), in insertion order
    parentItem,     \* parentItem[n]: group whose container hosts n's item, or NULL
    z,              \* z[n]: n->getItem()->z()
    maxZ,           \* _maxZ
    selectedNodes,  \* _selectedNodes
    selectedGroups, \* _selectedGroups
    selected,       \* selected[n]: n->getItem()->getSelected()
    selectionPolicy,\* _selectionPolicy
    ports,          \* ports[p]: the port item p, NoPort when it does not exist
    nextPort,       \* port items created so far
    crashed,        \* the process was ended by an undefined operation
    alignItems,     \* the bounds [x, y, width, height] of the items handed to align*
    last            \* the last call: [op, a, b, ret]

vars == << nodes, isGroup, item, edges, nextId, nextEdge, group, members,
           parentItem, z, maxZ, selectedNodes, selectedGroups, selected,
           selectionPolicy, ports, nextPort, crashed, alignItems, last >>

\* ----------------------------------------------------------------- helpers
Range(q) == { q[i] : i \in DOMAIN q }
\* QVector::contains
Contains(q, x) == \E i \in DOMAIN q : q[i] = x
\* QVector::removeAll
RemoveAll(q, x) == SelectSeq(q, LAMBDA y : y # x)

\* The current state as a record; ret is the value the call returns and ub
\* tells that the call executed an undefined operation.
Cur ==
    [ nodes |-> nodes, isGroup |-> isGroup, item |-> item, edges |-> edges,
      nextId |-> nextId, nextEdge |-> nextEdge, group |-> group,
      members |-> members, parentItem |-> parentItem, z |-> z, maxZ |-> maxZ,
      selectedNodes |-> selectedNodes, selectedGroups |-> selectedGroups,
      selected |-> selected, selectionPolicy |-> selectionPolicy,
      ports |-> ports, nextPort |-> nextPort,
      ret |-> 0, ub |-> FALSE ]

\* n is owned by the store.
Owned(s, n) == n \in Range(s.nodes)
Live(s) == Range(s.nodes)
LiveGroups(s) == { n \in Live(s) : s.isGroup[n] }

\* A port item that does not exist (not created yet, or destroyed).
NoPort == [ live |-> FALSE, node |-> NULL, type |-> "In", mult |-> "Multiple",
            inEdges |-> << >>, outEdges |-> << >> ]
LivePorts(s) == { p \in PortIds : s.ports[p].live }

\* in-edges and out-edges of n
InEdges(s, n) == { e \in s.edges : e.dst = n }
OutEdges(s, n) == { e \in s.edges : e.src = n }

\* ---------------------------------------------------------- gtpo::graph
\* The groups containing n's item, transitively, by visual parent.
RECURSIVE VisualDescendants(_, _, _)
VisualDescendants(s, X, k) ==
    IF k = 0 THEN X
    ELSE VisualDescendants(s, X \cup { m \in Ids : s.parentItem[m] \in X }, k - 1)

\* Destruction of the object n: its fields are gone, every weak reference to
\* it expires, and the items hosted by its item, its port items included,
\* are destroyed with it.
destroy(s, n) ==
    LET hosted == IF s.item[n]
                  THEN VisualDescendants(s, {n}, MaxEnt) \ {n} ELSE {}
        gone == hosted \cup {n}
    IN  [ s EXCEPT
            !.isGroup = [ s.isGroup EXCEPT ![n] = FALSE ],
            !.item = [ m \in Ids |-> IF m \in gone THEN FALSE ELSE s.item[m] ],
            !.selected = [ m \in Ids |-> IF m \in gone THEN FALSE ELSE s.selected[m] ],
            !.z = [ m \in Ids |-> IF m \in gone THEN 0 ELSE s.z[m] ],
            !.parentItem = [ m \in Ids |-> IF m \in gone THEN NULL ELSE s.parentItem[m] ],
            !.ports = [ p \in PortIds |->
                          IF s.ports[p].node \in gone THEN NoPort ELSE s.ports[p] ],
            !.group = [ m \in Ids |-> IF m = n \/ s.group[m] = n THEN NULL ELSE s.group[m] ],
            !.members = [ m \in Ids |-> IF m = n THEN << >> ELSE RemoveAll(s.members[m], n) ] ]

gtpo_insert_node(s, n, grp) ==
    [ s EXCEPT !.nodes = Append(s.nodes, n),
               !.isGroup = [ s.isGroup EXCEPT ![n] = grp ],
               !.nextId = n ]

gtpo_remove_edge(s, e) == [ s EXCEPT !.edges = s.edges \ {e} ]

\* Every edge incident to n is removed first, then n leaves the store and
\* is destroyed.
gtpo_remove_node(s, n) ==
    LET t == [ s EXCEPT !.edges = { e \in s.edges : e.src # n /\ e.dst # n },
                        !.nodes = RemoveAll(s.nodes, n) ]
    IN  destroy(t, n)

gtpo_remove_group(s, g) == gtpo_remove_node(s, g)

\* group_node throws a topology error when an endpoint is not owned.
gtpo_group_node_throws(s, n, g) == ~Owned(s, n) \/ ~Owned(s, g)

\* group_node attaching n without detaching it from its prior group.
gtpo_group_node_noDetach(s, n, g) ==
    [ s EXCEPT !.members = [ s.members EXCEPT ![g] = Append(s.members[g], n) ],
               !.group = [ s.group EXCEPT ![n] = g ] ]

\* n is detached from any prior group and attached to g's member set.
gtpo_group_node(s, n, g) ==
    LET detached == [ m \in Ids |-> RemoveAll(s.members[m], n) ]
    IN  [ s EXCEPT !.members = [ detached EXCEPT ![g] = Append(detached[g], n) ],
                   !.group = [ s.group EXCEPT ![n] = g ] ]

gtpo_ungroup_node(s, n, g) ==
    [ s EXCEPT !.members = [ s.members EXCEPT ![g] = RemoveAll(s.members[g], n) ],
               !.group = [ s.group EXCEPT ![n] = NULL ] ]

gtpo_has_edge(s, a, b) == \E e \in s.edges : e.src = a /\ e.dst = b

gtpo_clear(s) ==
    [ s EXCEPT !.nodes = << >>, !.edges = {},
               !.isGroup = [ m \in Ids |-> FALSE ],
               !.item = [ m \in Ids |-> FALSE ],
               !.selected = [ m \in Ids |-> FALSE ],
               !.z = [ m \in Ids |-> 0 ],
               !.parentItem = [ m \in Ids |-> NULL ],
               !.ports = [ p \in PortIds |-> NoPort ],
               !.group = [ m \in Ids |-> NULL ],
               !.members = [ m \in Ids |-> << >> ] ]

\* ------------------------------------------------------------ qan::Graph
InsertNodeOutcomes == { "ok", "null", "noDelegate", "itemFail", "topologyError" }

\* insertNode(SharedNode, component, style): what is the outcome of the
\* delegate lookup, of the item creation and of gtpo's insert_node.
insertNode(s, outcome) ==
    IF outcome \in { "null", "noDelegate", "itemFail" }
    THEN [ s EXCEPT !.ret = 0 ]
    ELSE IF outcome = "topologyError"
    THEN [ s EXCEPT !.maxZ = s.maxZ + 1, !.ret = 0 ]
    ELSE LET n == s.nextId + 1
             t == [ s EXCEPT !.item = [ s.item EXCEPT ![n] = TRUE ],
                             !.maxZ = s.maxZ + 1,
                             !.z = [ s.z EXCEPT ![n] = s.maxZ + 1 ] ]
         IN  [ gtpo_insert_node(t, n, FALSE) EXCEPT !.ret = 1 ]

insertNonVisualNode(s) ==
    [ gtpo_insert_node(s, s.nextId + 1, FALSE) EXCEPT !.ret = 1 ]

InsertGroupOutcomes == { "ok", "null", "noItem" }

insertGroup(s, outcome) ==
    IF outcome = "null" THEN [ s EXCEPT !.ret = 0 ]
    ELSE LET g == s.nextId + 1 IN
         IF outcome = "noItem"
         THEN [ gtpo_insert_node(s, g, TRUE) EXCEPT !.ret = 1 ]
         ELSE LET t == gtpo_insert_node(s, g, TRUE)
              IN  [ t EXCEPT !.item = [ t.item EXCEPT ![g] = TRUE ],
                             !.maxZ = t.maxZ + 1,
                             !.z = [ t.z EXCEPT ![g] = t.maxZ + 1 ],
                             !.ret = 1 ]

\* removeNode erasing the node from the store without the cascade over its edges.
removeNode_noCascade(s, n) ==
    IF n = NULL THEN s
    ELSE destroy([ s EXCEPT !.selectedNodes = RemoveAll(s.selectedNodes, n),
                            !.nodes = RemoveAll(s.nodes, n) ], n)

removeNode(s, n) ==
    IF n = NULL THEN s
    ELSE LET t == [ s EXCEPT !.selectedNodes =
                        IF Contains(s.selectedNodes, n)
                        THEN RemoveAll(s.selectedNodes, n) ELSE s.selectedNodes ]
         IN  gtpo_remove_node(t, n)

InsertEdgeOutcomes == { "ok", "itemFail" }

\* insertEdge(source, destination): the edge is created, configured with the
\* items of its endpoints and registered; srcPort and dstPort are the ports
\* its item is bound to (NULL: the item of the endpoint node).
insertEdge(s, a, b, outcome) ==
    IF a = NULL \/ b = NULL THEN [ s EXCEPT !.ret = NULL ]
    ELSE IF ~Owned(s, a) \/ ~Owned(s, b) \/ outcome = "itemFail"
    THEN [ s EXCEPT !.ret = NULL ]
    ELSE LET e == [ id |-> s.nextEdge + 1, src |-> a, dst |-> b,
                       srcPort |-> NULL, dstPort |-> NULL ]
         IN  [ s EXCEPT !.edges = s.edges \cup {e},
                        !.nextEdge = s.nextEdge + 1,
                        !.ret = e.id ]

\* The first edge from a to b, in insertion order.
FirstEdge(s, a, b) ==
    CHOOSE e \in s.edges : /\ e.src = a /\ e.dst = b
                           /\ \A f \in s.edges : f.src = a /\ f.dst = b => e.id <= f.id

removeEdgeBetween(s, a, b) ==
    IF a = NULL \/ b = NULL THEN s
    ELSE IF ~gtpo_has_edge(s, a, b) THEN s
    ELSE gtpo_remove_edge(s, FirstEdge(s, a, b))

removeEdge(s, e) ==
    IF e = NULL THEN s
    ELSE [ s EXCEPT !.edges = { f \in s.edges : f.id # e } ]

\* hasEdge that takes an edge from b to a for an edge from a to b.
hasEdge_eitherWay(s, a, b) ==
    IF a = NULL \/ b = NULL THEN FALSE
    ELSE gtpo_has_edge(s, a, b) \/ gtpo_has_edge(s, b, a)

hasEdge(s, a, b) ==
    IF a = NULL \/ b = NULL THEN FALSE
    ELSE gtpo_has_edge(s, a, b)

\* GroupItem::ungroupNodeItem: the item goes back to the graph container.
ungroupNodeItem(s, n) ==
    IF s.item[n] THEN [ s EXCEPT !.parentItem = [ s.parentItem EXCEPT ![n] = NULL ] ]
    ELSE s

\* GroupItem::groupNodeItem: the item is hosted by the group's container.
groupNodeItem(s, g, n) ==
    [ s EXCEPT !.parentItem = [ s.parentItem EXCEPT ![n] = g ] ]

RECURSIVE ungroupMemberItems(_, _, _)
ungroupMemberItems(s, g, q) ==
    IF q = << >> THEN s
    ELSE LET m == Head(q)
             t == IF s.item[m] /\ s.item[g] THEN ungroupNodeItem(s, m) ELSE s
         IN  ungroupMemberItems(t, g, Tail(q))

\* removeGroup without the loop that hands the member items back to the graph.
removeGroup_noReparent(s, g) ==
    IF g = NULL THEN s
    ELSE gtpo_remove_group([ s EXCEPT !.selectedNodes = RemoveAll(s.selectedNodes, g) ], g)

removeGroup(s, g) ==
    IF g = NULL THEN s
    ELSE LET t == ungroupMemberItems(s, g, s.members[g])
             u == [ t EXCEPT !.selectedNodes =
                        IF Contains(t.selectedNodes, g)
                        THEN RemoveAll(t.selectedNodes, g) ELSE t.selectedNodes ]
         IN  gtpo_remove_group(u, g)

\* groupNode without the test group == node.
groupNode_noSelfCheck(s, g, n) ==
    IF g = NULL \/ n = NULL THEN [ s EXCEPT !.ret = 0 ]
    ELSE IF gtpo_group_node_throws(s, n, g) THEN [ s EXCEPT !.ret = 0 ]
    ELSE LET t == gtpo_group_node(s, n, g)
             u == IF t.group[n] = g /\ t.item[g] /\ t.item[n]
                  THEN groupNodeItem(t, g, n) ELSE t
         IN  [ u EXCEPT !.ret = 1 ]

groupNode(s, g, n) ==
    IF g = NULL \/ n = NULL THEN [ s EXCEPT !.ret = 0 ]
    ELSE IF g = n THEN [ s EXCEPT !.ret = 0 ]
    ELSE IF gtpo_group_node_throws(s, n, g) THEN [ s EXCEPT !.ret = 0 ]
    ELSE LET t == gtpo_group_node(s, n, g)
             u == IF t.group[n] = g /\ t.item[g] /\ t.item[n]
                  THEN groupNodeItem(t, g, n) ELSE t
         IN  [ u EXCEPT !.ret = 1 ]

\* ungroupNode moving the item back but leaving the node in the group.
ungroupNode_itemOnly(s, n, g) ==
    IF n = NULL THEN [ s EXCEPT !.ret = 0 ]
    ELSE IF g = NULL /\ s.group[n] = NULL THEN [ s EXCEPT !.ret = 0 ]
    ELSE IF g # NULL /\ g # s.group[n] THEN [ s EXCEPT !.ret = 0 ]
    ELSE LET h == s.group[n]
             t == IF s.item[h] THEN ungroupNodeItem(s, n) ELSE s
             v == IF t.item[n]
                  THEN [ t EXCEPT !.maxZ = t.maxZ + 1,
                                  !.z = [ t.z EXCEPT ![n] = t.maxZ + 1 ] ]
                  ELSE t
         IN  [ v EXCEPT !.ret = 1 ]

\* ungroupNode without the test of group against the node's owning group.
ungroupNode_anyGroup(s, n, g) ==
    IF n = NULL THEN [ s EXCEPT !.ret = 0 ]
    ELSE IF s.group[n] = NULL THEN [ s EXCEPT !.ret = 0 ]
    ELSE LET h == s.group[n]
             t == IF s.item[h] THEN ungroupNodeItem(s, n) ELSE s
             u == gtpo_ungroup_node(t, n, h)
             v == IF u.item[n]
                  THEN [ u EXCEPT !.maxZ = u.maxZ + 1,
                                  !.z = [ u.z EXCEPT ![n] = u.maxZ + 1 ] ]
                  ELSE u
         IN  [ v EXCEPT !.ret = 1 ]

ungroupNode(s, n, g) ==
    IF n = NULL THEN [ s EXCEPT !.ret = 0 ]
    ELSE IF g = NULL /\ s.group[n] = NULL THEN [ s EXCEPT !.ret = 0 ]
    ELSE IF g # NULL /\ g # s.group[n] THEN [ s EXCEPT !.ret = 0 ]
    ELSE LET h == s.group[n]
             t == IF s.item[h] THEN ungroupNodeItem(s, n) ELSE s
             u == gtpo_ungroup_node(t, n, h)
             v == IF u.item[n]
                  THEN [ u EXCEPT !.maxZ = u.maxZ + 1,
                                  !.z = [ u.z EXCEPT ![n] = u.maxZ + 1 ] ]
                  ELSE u
         IN  [ v EXCEPT !.ret = 1 ]

\* ------------------------------------------------------------- selection
\* addToSelection(qan::Node&) without the contains() test.
addToSelectionNode_noContains(s, n) ==
    [ s EXCEPT !.selectedNodes = Append(s.selectedNodes, n),
               !.selected = [ s.selected EXCEPT ![n] = s.item[n] \/ s.selected[n] ] ]

addToSelectionNode(s, n) ==
    IF Contains(s.selectedNodes, n) THEN s
    ELSE [ s EXCEPT !.selectedNodes = Append(s.selectedNodes, n),
                    !.selected = [ s.selected EXCEPT ![n] = s.item[n] \/ s.selected[n] ] ]

addToSelectionGroup(s, g) ==
    IF Contains(s.selectedGroups, g) THEN s
    ELSE [ s EXCEPT !.selectedGroups = Append(s.selectedGroups, g),
                    !.selected = [ s.selected EXCEPT ![g] = s.item[g] \/ s.selected[g] ] ]

\* removeFromSelection(QQuickItem*): the item of n leaves its selection vector.
removeFromSelectionItem(s, n) ==
    IF ~s.isGroup[n]
    THEN [ s EXCEPT !.selectedNodes = RemoveAll(s.selectedNodes, n) ]
    ELSE [ s EXCEPT !.selectedGroups = RemoveAll(s.selectedGroups, n) ]

\* Selectable::setSelected(false) on the item of n.
setSelectedFalse(s, n) ==
    LET t == removeFromSelectionItem(s, n)
    IN  [ t EXCEPT !.selected = [ t.selected EXCEPT ![n] = FALSE ] ]

\* The loops of clearSelection over the copy q of a selection vector; a
\* reference to a destroyed entity is dereferenced all the same.
RECURSIVE deselectAll(_, _)
deselectAll(s, q) ==
    IF q = << >> THEN s
    ELSE LET x == Head(q)
             t == IF ~Owned(s, x) THEN [ s EXCEPT !.ub = TRUE ]
                  ELSE IF s.item[x] THEN setSelectedFalse(s, x)
                  ELSE s
         IN  deselectAll(t, Tail(q))

\* clearSelection walking the vectors themselves, without the copies: i is the
\* iterator, and the end is the vector's end as setSelected(false) leaves it.
RECURSIVE deselectLive(_, _, _)
deselectLive(s, i, asGroup) ==
    LET v == IF asGroup THEN s.selectedGroups ELSE s.selectedNodes
    IN  IF i > Len(v) THEN s
        ELSE LET x == v[i]
                 t == IF s.item[x] THEN setSelectedFalse(s, x) ELSE s
             IN  deselectLive(t, i + 1, asGroup)

clearSelection_liveWalk(s) ==
    LET t == [ deselectLive(s, 1, FALSE) EXCEPT !.selectedNodes = << >> ]
    IN  [ deselectLive(t, 1, TRUE) EXCEPT !.selectedGroups = << >> ]

\* Graph::clearSelection(): the loops run over copies of the two vectors.
clearSelection(s) ==
    LET t == [ deselectAll(s, s.selectedNodes) EXCEPT !.selectedNodes = << >> ]
    IN  [ deselectAll(t, t.selectedGroups) EXCEPT !.selectedGroups = << >> ]

\* removeFromSelection(qan::Node&) and removeFromSelection(qan::Group&)
removeFromSelectionNode(s, n) ==
    IF Contains(s.selectedNodes, n)
    THEN [ s EXCEPT !.selectedNodes = RemoveAll(s.selectedNodes, n) ]
    ELSE s
removeFromSelectionGroup(s, g) ==
    IF Contains(s.selectedGroups, g)
    THEN [ s EXCEPT !.selectedGroups = RemoveAll(s.selectedGroups, g) ]
    ELSE s

SelectionPolicies == { "NoSelection", "SelectOnClick", "SelectOnCtrlClick" }

\* addToSelection(primitive), by the type the template is instantiated with.
addToSelection(s, n, asGroup) ==
    IF asGroup THEN addToSelectionGroup(s, n) ELSE addToSelectionNode(s, n)

\* selectPrimitive without the clearSelection of SelectOnClick.
selectPrimitive_noClear(s, n, ctrlPressed, asGroup) ==
    IF s.selectionPolicy = "NoSelection" THEN [ s EXCEPT !.ret = 0 ]
    ELSE IF ~s.item[n] THEN [ s EXCEPT !.ret = 0 ]
    ELSE IF s.selected[n]
    THEN [ (IF ctrlPressed THEN setSelectedFalse(s, n) ELSE s) EXCEPT !.ret = 0 ]
    ELSE IF s.selectionPolicy = "SelectOnClick" \/ ctrlPressed
    THEN [ addToSelection(s, n, asGroup) EXCEPT !.ret = 1 ]
    ELSE [ s EXCEPT !.ret = 0 ]

\* selectPrimitive leaving a selected entity selected when the modifier is held.
selectPrimitive_noToggle(s, n, ctrlPressed, asGroup) ==
    IF s.selectionPolicy = "NoSelection" THEN [ s EXCEPT !.ret = 0 ]
    ELSE IF ~s.item[n] THEN [ s EXCEPT !.ret = 0 ]
    ELSE IF s.selected[n] THEN [ s EXCEPT !.ret = 0 ]
    ELSE IF s.selectionPolicy = "SelectOnClick"
    THEN LET t == IF ~ctrlPressed THEN clearSelection(s) ELSE s
         IN  [ addToSelection(t, n, asGroup) EXCEPT !.ret = 1 ]
    ELSE IF ctrlPressed
    THEN [ addToSelection(s, n, asGroup) EXCEPT !.ret = 1 ]
    ELSE [ s EXCEPT !.ret = 0 ]

\* selectPrimitive selecting under SelectOnCtrlClick whatever the modifier.
selectPrimitive_anyClick(s, n, ctrlPressed, asGroup) ==
    IF s.selectionPolicy = "NoSelection" THEN [ s EXCEPT !.ret = 0 ]
    ELSE IF ~s.item[n] THEN [ s EXCEPT !.ret = 0 ]
    ELSE IF s.selected[n]
    THEN [ (IF ctrlPressed THEN setSelectedFalse(s, n) ELSE s) EXCEPT !.ret = 0 ]
    ELSE LET t == IF s.selectionPolicy = "SelectOnClick" /\ ~ctrlPressed
                  THEN clearSelection(s) ELSE s
         IN  [ addToSelection(t, n, asGroup) EXCEPT !.ret = 1 ]

\* selectPrimitive reducing the selection to the clicked entity when a
\* selected entity is clicked without the modifier under SelectOnClick.
selectPrimitive_clickReduces(s, n, ctrlPressed, asGroup) ==
    IF s.selectionPolicy = "NoSelection" THEN [ s EXCEPT !.ret = 0 ]
    ELSE IF ~s.item[n] THEN [ s EXCEPT !.ret = 0 ]
    ELSE IF s.selected[n]
    THEN IF ctrlPressed THEN [ setSelectedFalse(s, n) EXCEPT !.ret = 0 ]
         ELSE IF s.selectionPolicy = "SelectOnClick"
         THEN [ addToSelection(clearSelection(s), n, asGroup) EXCEPT !.ret = 0 ]
         ELSE [ s EXCEPT !.ret = 0 ]
    ELSE IF s.selectionPolicy = "SelectOnClick"
    THEN LET t == IF ~ctrlPressed THEN clearSelection(s) ELSE s
         IN  [ addToSelection(t, n, asGroup) EXCEPT !.ret = 1 ]
    ELSE IF ctrlPressed
    THEN [ addToSelection(s, n, asGroup) EXCEPT !.ret = 1 ]
    ELSE [ s EXCEPT !.ret = 0 ]

\* selectPrimitive without the test of the NoSelection policy.
selectPrimitive_noPolicyTest(s, n, ctrlPressed, asGroup) ==
    IF ~s.item[n] THEN [ s EXCEPT !.ret = 0 ]
    ELSE IF s.selected[n]
    THEN [ (IF ctrlPressed THEN setSelectedFalse(s, n) ELSE s) EXCEPT !.ret = 0 ]
    ELSE IF s.selectionPolicy = "SelectOnClick"
    THEN LET t == IF ~ctrlPressed THEN clearSelection(s) ELSE s
         IN  [ addToSelection(t, n, asGroup) EXCEPT !.ret = 1 ]
    ELSE IF s.selectionPolicy = "SelectOnCtrlClick" /\ ctrlPressed
    THEN [ addToSelection(s, n, asGroup) EXCEPT !.ret = 1 ]
    ELSE [ s EXCEPT !.ret = 0 ]

\* impl::selectPrimitive<Primitive_t>(primitive, modifiers, graph)
selectPrimitive(s, n, ctrlPressed, asGroup) ==
    IF s.selectionPolicy = "NoSelection" THEN [ s EXCEPT !.ret = 0 ]
    ELSE IF ~s.item[n] THEN [ s EXCEPT !.ret = 0 ]
    ELSE IF s.selected[n]
    THEN [ (IF ctrlPressed THEN setSelectedFalse(s, n) ELSE s) EXCEPT !.ret = 0 ]
    ELSE IF s.selectionPolicy = "SelectOnClick"
    THEN LET t == IF ~ctrlPressed THEN clearSelection(s) ELSE s
         IN  [ addToSelection(t, n, asGroup) EXCEPT !.ret = 1 ]
    ELSE IF ctrlPressed
    THEN [ addToSelection(s, n, asGroup) EXCEPT !.ret = 1 ]
    ELSE [ s EXCEPT !.ret = 0 ]

selectNode(s, n, ctrlPressed) ==
    IF n = NULL THEN [ s EXCEPT !.ret = 0 ]
    ELSE selectPrimitive(s, n, ctrlPressed, FALSE)

selectGroup(s, g, ctrlPressed) == selectPrimitive(s, g, ctrlPressed, TRUE)

\* impl::setPrimitiveSelected<qan::Node>(node, selected, graph)
setPrimitiveSelected(s, n, sel) ==
    IF ~s.item[n] THEN s
    ELSE IF sel
    THEN addToSelectionNode(
             [ s EXCEPT !.selected = [ s.selected EXCEPT ![n] = TRUE ] ], n)
    ELSE setSelectedFalse(s, n)

setNodeSelected(s, n, sel) ==
    IF n = NULL THEN s ELSE setPrimitiveSelected(s, n, sel)

\* setSelectionPolicy that keeps the selection when selecting is turned off.
setSelectionPolicy_noClear(s, policy) ==
    IF policy = s.selectionPolicy THEN s
    ELSE [ s EXCEPT !.selectionPolicy = policy ]

setSelectionPolicy(s, policy) ==
    IF policy = s.selectionPolicy THEN s
    ELSE LET t == [ s EXCEPT !.selectionPolicy = policy ]
         IN  IF policy = "NoSelection" THEN clearSelection(t) ELSE t

\* The first loop of removeSelection walks the live vector _selectedNodes
\* while removeNode shrinks it: buf is the vector's storage, i the iterator
\* and n0 the end iterator taken when the loop started.  QVector::removeAll
\* moves the kept elements down and leaves the slots behind the new end as
\* they were.
RECURSIVE removeSelectedNodes(_, _, _, _)
removeSelectedNodes(s, buf, i, n0) ==
    IF i > n0 THEN s
    ELSE LET x == buf[i] IN
         IF ~Owned(s, x)
         THEN removeSelectedNodes([ s EXCEPT !.ub = TRUE ], buf, i + 1, n0)
         ELSE LET t == removeNode(s, x)
                  k == Len(t.selectedNodes)
              IN  removeSelectedNodes(t, t.selectedNodes \o SubSeq(buf, k + 1, n0),
                                      i + 1, n0)

\* The second loop: removeGroup leaves _selectedGroups as it is.
RECURSIVE removeSelectedGroups(_, _)
removeSelectedGroups(s, i) ==
    IF i > Len(s.selectedGroups) THEN s
    ELSE LET x == s.selectedGroups[i] IN
         IF ~Owned(s, x)
         THEN removeSelectedGroups([ s EXCEPT !.ub = TRUE ], i + 1)
         ELSE removeSelectedGroups(removeGroup(s, x), i + 1)

removeSelection(s) ==
    LET t == removeSelectedNodes(s, s.selectedNodes, 1, Len(s.selectedNodes))
        u == removeSelectedGroups(t, 1)
    IN  clearSelection(u)

clear(s) == gtpo_clear([ s EXCEPT !.selectedNodes = << >> ])

\* ----------------------------------------------------------------- ports
PortTypes == { "In", "Out", "InOut" }
Multiplicities == { "Single", "Multiple" }

InsertPortOutcomes == { "ok", "noDelegate", "noStyle", "itemFail" }

\* insertPort(node, dockType, portType, label, id): the port item is created
\* from the port delegate, which gives it its multiplicity mult, then typed
\* and registered in the ports of the node's item.
insertPort(s, node, portType, mult, outcome) ==
    IF node = NULL THEN [ s EXCEPT !.ret = NULL ]
    ELSE IF ~s.item[node] THEN [ s EXCEPT !.ret = NULL ]
    ELSE IF outcome = "noDelegate" THEN [ s EXCEPT !.ret = NULL ]
    ELSE IF outcome \in { "noStyle", "itemFail" } THEN [ s EXCEPT !.ret = NULL ]
    ELSE LET p == s.nextPort + 1
         IN  [ s EXCEPT !.ports = [ s.ports EXCEPT ![p] =
                                      [ live |-> TRUE, node |-> node,
                                        type |-> portType, mult |-> mult,
                                        inEdges |-> << >>, outEdges |-> << >> ] ],
                        !.nextPort = p,
                        !.ret = p ]

\* isEdgeSourceBindable without the test of the out degree of a Single port.
isEdgeSourceBindable_noCount(outPort) ==
    outPort.type \in { "Out", "InOut" }

isEdgeSourceBindable(outPort) ==
    IF outPort.type # "Out" /\ outPort.type # "InOut" THEN FALSE
    ELSE IF outPort.mult = "Multiple" THEN TRUE
    ELSE IF outPort.mult = "Single" /\ Len(outPort.outEdges) = 0 THEN TRUE
    ELSE FALSE

\* isEdgeDestinationBindable without the test of the type of the port.
isEdgeDestinationBindable_anyType(inPort) ==
    IF inPort.mult = "Multiple" THEN TRUE
    ELSE IF inPort.mult = "Single" /\ Len(inPort.inEdges) = 0 THEN TRUE
    ELSE FALSE

isEdgeDestinationBindable(inPort) ==
    IF inPort.type # "In" /\ inPort.type # "InOut" THEN FALSE
    ELSE IF inPort.mult = "Multiple" THEN TRUE
    ELSE IF inPort.mult = "Single" /\ Len(inPort.inEdges) = 0 THEN TRUE
    ELSE FALSE

\* edge.getItem() != nullptr: an edge of the store was configured with an item.
EdgeHasItem(s, e) == \E f \in s.edges : f.id = e

\* EdgeItem::setSourceItem and EdgeItem::setDestinationItem
setSourceItem(s, e, p) ==
    [ s EXCEPT !.edges = { IF f.id = e THEN [ f EXCEPT !.srcPort = p ] ELSE f :
                           f \in s.edges } ]
setDestinationItem(s, e, p) ==
    [ s EXCEPT !.edges = { IF f.id = e THEN [ f EXCEPT !.dstPort = p ] ELSE f :
                           f \in s.edges } ]

\* bindEdgeSource(qan::Edge&, qan::PortItem&)
bindEdgeSourceRef(s, edge, outPort) ==
    IF ~EdgeHasItem(s, edge) THEN s
    ELSE IF isEdgeSourceBindable(s.ports[outPort])
    THEN LET t == setSourceItem(s, edge, outPort)
         IN  [ t EXCEPT !.ports = [ t.ports EXCEPT ![outPort].outEdges =
                                      Append(t.ports[outPort].outEdges, edge) ] ]
    ELSE s

\* bindEdgeDestination(qan::Edge&, qan::PortItem&)
bindEdgeDestinationRef(s, edge, inPort) ==
    IF ~EdgeHasItem(s, edge) THEN s
    ELSE IF isEdgeDestinationBindable(s.ports[inPort])
    THEN LET t == setDestinationItem(s, edge, inPort)
         IN  [ t EXCEPT !.ports = [ t.ports EXCEPT ![inPort].inEdges =
                                      Append(t.ports[inPort].inEdges, edge) ] ]
    ELSE s

\* bindEdgeSource(qan::Edge*, qan::PortItem*)
bindEdgeSource(s, edge, outPort) ==
    IF edge = NULL \/ outPort = NULL THEN s
    ELSE bindEdgeSourceRef(s, edge, outPort)

\* bindEdgeDestination(qan::Edge*, qan::PortItem*)
bindEdgeDestination(s, edge, inPort) ==
    IF edge = NULL \/ inPort = NULL THEN s
    ELSE bindEdgeDestinationRef(s, edge, inPort)

bindEdge(s, edge, outPort, inPort) ==
    bindEdgeSource(bindEdgeDestination(s, edge, inPort), edge, outPort)

\* The edges of the store in creation order.
EdgeSeq(s) ==
    SelectSeq([ i \in 1 .. s.nextEdge |-> i ],
              LAMBDA i : \E e \in s.edges : e.id = i)

\* node.get_in_edges() and node.get_out_edges(): the adjacency lists of
\* node, in the order the edges were registered.
AdjacentEdges(s, node, inSide) ==
    SelectSeq(EdgeSeq(s),
              LAMBDA i : \E e \in s.edges :
                  e.id = i /\ (IF inSide THEN e.dst = node ELSE e.src = node))

\* A std::for_each of removePort over an adjacency list of node, i the
\* iterator and n0 the end taken when the loop started.  removeEdge takes
\* the edge out of the list the loop is walking: the edges behind it move
\* down one slot, the iterator goes on to the next slot and the slots behind
\* the new end of the list hold no edge any more.
RECURSIVE removeConnectEdge(_, _, _, _, _, _)
removeConnectEdge(s, node, port, inSide, i, n0) ==
    IF i > n0 THEN s
    ELSE LET list == AdjacentEdges(s, node, inSide) IN
         IF i > Len(list)
         THEN removeConnectEdge([ s EXCEPT !.ub = TRUE ], node, port, inSide,
                                i + 1, n0)
         ELSE LET e == CHOOSE f \in s.edges : f.id = list[i]
                  t == IF e.srcPort = port \/ e.dstPort = port
                       THEN removeEdge(s, e.id) ELSE s
              IN  removeConnectEdge(t, node, port, inSide, i + 1, n0)

\* removePort(node, port): the edges of node whose item is bound to port are
\* removed, port leaves the ports of the node's item and is destroyed.
removePort(s, node, port) ==
    IF node = NULL THEN s
    ELSE IF ~s.item[node] THEN s
    ELSE IF port = NULL THEN s
    ELSE LET t == removeConnectEdge(s, node, port, TRUE, 1,
                                    Len(AdjacentEdges(s, node, TRUE)))
             u == removeConnectEdge(t, node, port, FALSE, 1,
                                    Len(AdjacentEdges(t, node, FALSE)))
         IN  [ u EXCEPT !.ports = [ u.ports EXCEPT ![port] = NoPort ] ]

\* -------------------------------------------------------------- traversal
\* Deepest nesting of collectDfsRec calls the stack is given.
DfsStack == MaxEnt + 1

\* node.get_out_nodes(): the destination of each out-edge of n.
OutNodes(s, n) ==
    LET out == SelectSeq(EdgeSeq(s),
                         LAMBDA i : \E e \in s.edges : e.id = i /\ e.src = n)
    IN  [ k \in 1 .. Len(out) |-> (CHOOSE e \in s.edges : e.id = out[k]).dst ]

\* get_root_nodes(): the nodes of the store without in-edge and without
\* owning group, in the order they were inserted.
RootNodes(s) ==
    SelectSeq(s.nodes, LAMBDA n : InEdges(s, n) = {} /\ s.group[n] = NULL)

\* collectRootNodes that leaves out the last root node.
collectRootNodes_dropLast(s) ==
    SubSeq(RootNodes(s), 1, Len(RootNodes(s)) - 1)

\* collectRootNodes(): a pointer to each root node, in the order of the
\* store's root nodes.
collectRootNodes(s) ==
    [ i \in 1 .. Len(RootNodes(s)) |-> RootNodes(s)[i] ]

\* marks and childs of a traversal, and whether it ran out of stack.
DfsStart == [ marks |-> {}, childs |-> << >>, overflow |-> FALSE ]

\* collectDfsRec visiting a node whether it is marked or not.
RECURSIVE collectDfsRec_noMarks(_, _, _, _, _)
RECURSIVE collectDfsEach(_, _, _, _, _)
collectDfsRec_noMarks(s, node, acc, collectGroup, depth) ==
    IF node = NULL THEN acc
    ELSE IF depth > DfsStack THEN [ acc EXCEPT !.overflow = TRUE ]
    ELSE LET a1 == [ acc EXCEPT !.marks = acc.marks \cup { node },
                                !.childs = Append(acc.childs, node) ]
             a2 == IF collectGroup /\ s.isGroup[node]
                   THEN collectDfsEach(s, s.members[node], a1, collectGroup, depth + 1)
                   ELSE a1
         IN  collectDfsEach(s, OutNodes(s, node), a2, collectGroup, depth + 1)

RECURSIVE collectDfsRec(_, _, _, _, _)
collectDfsRec(s, node, acc, collectGroup, depth) ==
    IF node = NULL THEN acc
    ELSE IF depth > DfsStack THEN [ acc EXCEPT !.overflow = TRUE ]
    ELSE IF node \in acc.marks THEN acc
    ELSE LET a1 == [ acc EXCEPT !.marks = acc.marks \cup { node },
                                !.childs = Append(acc.childs, node) ]
             a2 == IF collectGroup /\ s.isGroup[node]
                   THEN collectDfsEach(s, s.members[node], a1, collectGroup, depth + 1)
                   ELSE a1
         IN  collectDfsEach(s, OutNodes(s, node), a2, collectGroup, depth + 1)

\* for (x : q) collectDfsRec(x, marks, childs, collectGroup)
collectDfsEach(s, q, acc, collectGroup, depth) ==
    IF q = << >> \/ acc.overflow THEN acc
    ELSE collectDfsEach(s, Tail(q),
                        collectDfsRec(s, Head(q), acc, collectGroup, depth),
                        collectGroup, depth)

\* collectDfs(bool collectGroup): from every root node.
collectDfsAll(s, collectGroup) ==
    collectDfsEach(s, RootNodes(s), DfsStart, collectGroup, 1)

\* collectDfs(const qan::Node&, bool collectGroup)
collectDfs(s, node, collectGroup) ==
    LET a == IF collectGroup /\ s.isGroup[node]
             THEN collectDfsEach(s, s.members[node], DfsStart, collectGroup, 1)
             ELSE DfsStart
    IN  collectDfsEach(s, OutNodes(s, node), a, collectGroup, 1)

\* node.get_in_nodes(): the source of each in-edge of n.
InNodes(s, n) ==
    LET in == SelectSeq(EdgeSeq(s),
                        LAMBDA i : \E e \in s.edges : e.id = i /\ e.dst = n)
    IN  [ k \in 1 .. Len(in) |-> (CHOOSE e \in s.edges : e.id = in[k]).src ]

\* collectAncestorsDfsRec: the members of a group when groups are collected,
\* then the owning group of the node, then its in-nodes.
RECURSIVE collectAncestorsDfsRec(_, _, _, _, _)
RECURSIVE collectAncestorsDfsEach(_, _, _, _, _)
collectAncestorsDfsRec(s, node, acc, collectGroup, depth) ==
    IF node = NULL THEN acc
    ELSE IF depth > DfsStack THEN [ acc EXCEPT !.overflow = TRUE ]
    ELSE IF node \in acc.marks THEN acc
    ELSE LET a1 == [ acc EXCEPT !.marks = acc.marks \cup { node },
                                !.childs = Append(acc.childs, node) ]
             a2 == IF collectGroup /\ s.isGroup[node]
                   THEN collectAncestorsDfsEach(s, s.members[node], a1,
                                                collectGroup, depth + 1)
                   ELSE a1
             a3 == IF a2.overflow THEN a2
                   ELSE collectAncestorsDfsRec(s, s.group[node], a2, collectGroup,
                                               depth + 1)
         IN  collectAncestorsDfsEach(s, InNodes(s, node), a3, collectGroup, depth + 1)

collectAncestorsDfsEach(s, q, acc, collectGroup, depth) ==
    IF q = << >> \/ acc.overflow THEN acc
    ELSE collectAncestorsDfsEach(s, Tail(q),
                                 collectAncestorsDfsRec(s, Head(q), acc,
                                                        collectGroup, depth),
                                 collectGroup, depth)

\* collectAncestorsDfs(const qan::Node&, bool collectGroup): the members of
\* the node when it is a group and groups are collected, then its in-nodes;
\* the owning group of the node itself is not followed.
collectAncestorsDfs(s, node, collectGroup) ==
    LET a == IF collectGroup /\ s.isGroup[node]
             THEN collectAncestorsDfsEach(s, s.members[node], DfsStart,
                                          collectGroup, 1)
             ELSE DfsStart
    IN  collectAncestorsDfsEach(s, InNodes(s, node), a, collectGroup, 1)

\* isAncestor(const qan::Node&, const qan::Node&): not implemented, both
\* arguments are unused and the answer is false.
isAncestor(s, node, candidate) == FALSE

\* -------------------------------------------------------------- stacking
\* The items that are children of a container: of the container of group c,
\* or of the graph container when c is NULL.
ChildItems(s, c) == { m \in Live(s) : s.item[m] /\ s.parentItem[m] = c }

MaxOf(S) == CHOOSE x \in S : \A y \in S : y <= x

\* Graph::maxChildsZ(item): the greatest z of the container's children, 0
\* without children.  The z of an item is never negative here, so the start
\* value of the scan, the least positive qreal, is below every sum the
\* callers make with it.
maxChildsZ(s, c) ==
    IF ChildItems(s, c) = {} THEN 0
    ELSE MaxOf({ s.z[m] : m \in ChildItems(s, c) })

setMaxZ(s, zv) == [ s EXCEPT !.maxZ = zv ]

\* Graph::nextMaxZ(): the value returned is the new maxZ.
nextMaxZ(s) == [ s EXCEPT !.maxZ = s.maxZ + 1 ]

updateMaxZ(s, zv) == IF zv > s.maxZ THEN setMaxZ(s, zv) ELSE s

findMaxZ(s) == setMaxZ(s, maxChildsZ(s, NULL))

setZ(s, n, zv) == [ s EXCEPT !.z = [ s.z EXCEPT ![n] = zv ] ]

\* collectGroups_rec of sendToFront: the group and the groups around it, from
\* the inner one outwards, following getGroup().  On groups that contain each
\* other the recursion has no end; the result then ends with NULL.
RECURSIVE collectGroups_rec(_, _, _)
collectGroups_rec(s, g, depth) ==
    IF depth > MaxEnt THEN << NULL >>
    ELSE LET parentGroup == s.group[g]
         IN  IF parentGroup # NULL /\ s.item[parentGroup]
             THEN << g >> \o collectGroups_rec(s, parentGroup, depth + 1)
             ELSE << g >>

\* The loop of sendToFront over the collected groups.
RECURSIVE raiseGroups(_, _)
raiseGroups(s, q) ==
    IF q = << >> THEN s
    ELSE LET g == Head(q)
             t == IF s.parentItem[g] = NULL
                  THEN LET u == nextMaxZ(s) IN setZ(u, g, u.maxZ)
                  ELSE LET localZ == maxChildsZ(s, s.parentItem[g])
                       IN  setZ(updateMaxZ(s, localZ + 1), g, localZ + 1)
         IN  raiseGroups(t, Tail(q))

\* Graph::sendToFront(item), n the entity of the item: an item that is not a
\* group item, or a group item in the graph container, gets nextMaxZ(); for
\* another group item the groups from it outwards are raised.
sendToFront(s, n) ==
    IF n = NULL THEN s
    ELSE IF ~s.isGroup[n]
    THEN LET u == nextMaxZ(s) IN setZ(u, n, u.maxZ)
    ELSE IF s.parentItem[n] = NULL
    THEN LET u == nextMaxZ(s) IN setZ(u, n, u.maxZ)
    ELSE LET groups == collectGroups_rec(s, n, 1)
         IN  IF Contains(groups, NULL) THEN [ s EXCEPT !.ub = TRUE ]
             ELSE raiseGroups(s, groups)

\* --------------------------------------------------------------- hit test

\* Graph::graphChildAt(x, y).  The geometry is an input: hits is the set of
\* items that are visible and whose bounds contain the point mapped into
\* their coordinates.  childItems() lists the children of a container back to
\* front, by ascending z and by insertion among equal z, and the scan runs
\* from the end of that list.  The children of a group item are scanned one
\* level down; the answer of that scan is returned as it is.
graphChildAt(s, hits) ==
    LET Behind(a, b) == s.z[a] < s.z[b] \/ (s.z[a] = s.z[b] /\ a < b)
        TopHit(c) ==
            LET in == ChildItems(s, c) \cap hits
            IN  IF in = {} THEN NULL
                ELSE CHOOSE m \in in : \A o \in in \ { m } : Behind(o, m)
        child == TopHit(NULL)
    IN  IF child = NULL THEN NULL
        ELSE IF s.isGroup[child] /\ TopHit(child) # NULL THEN TopHit(child)
        ELSE child

\* -------------------------------------------------------------- alignment

\* Graph::alignRight(items): the scan for the greatest right edge starts at
\* numeric_limits<qreal>::min().
alignRight(items) ==
    IF Len(items) <= 1 THEN items
    ELSE LET maxRight == MaxOf({ QrealMin } \cup
                               { items[i].x + items[i].width : i \in DOMAIN items })
         IN  [ i \in DOMAIN items |->
                 [ items[i] EXCEPT !.x = maxRight - items[i].width ] ]

\* Graph::alignLeft(items): the scan for the least x starts at
\* numeric_limits<qreal>::max().
alignLeft(items) ==
    IF Len(items) <= 1 THEN items
    ELSE LET xs == { QrealMax } \cup { items[i].x : i \in DOMAIN items }
             minLeft == CHOOSE v \in xs : \A w \in xs : v <= w
         IN  [ i \in DOMAIN items |-> [ items[i] EXCEPT !.x = minLeft ] ]

\* Graph::alignTop(items).
alignTop(items) ==
    IF Len(items) <= 1 THEN items
    ELSE LET ys == { QrealMax } \cup { items[i].y : i \in DOMAIN items }
             minTop == CHOOSE v \in ys : \A w \in ys : v <= w
         IN  [ i \in DOMAIN items |-> [ items[i] EXCEPT !.y = minTop ] ]

\* Graph::alignBottom(items): the scan for the greatest bottom edge starts at
\* numeric_limits<qreal>::min().
alignBottom(items) ==
    IF Len(items) <= 1 THEN items
    ELSE LET maxBottom == MaxOf({ QrealMin } \cup
                                { items[i].y + items[i].height : i \in DOMAIN items })
         IN  [ i \in DOMAIN items |->
                 [ items[i] EXCEPT !.y = maxBottom - items[i].height ] ]

\* ---------------------------------------------------------------- actions
\* The calls last tells apart; any other call leaves "other" in it.
Tracked == { "removeNode", "removeGroup", "groupNode", "ungroupNode",
             "removeSelection", "clear", "bindEdgeSource",
             "bindEdgeDestination", "bindEdge", "collectDfs", "collectDfsAll",
             "selectNode", "selectGroup", "setNodeSelected",
             "setSelectionPolicy", "clearSelection", "sendToFront",
             "removeEdgeBetween" }

\* The state after a call: the record the operation returns.  A call that
\* executed an undefined operation ends the process or goes on.  last keeps
\* the call, its arguments, what it returned and pre, what the call found
\* (a set of tags on the state before it).
Commit(s, op, a, b, pre) ==
    /\ nodes' = s.nodes
    /\ isGroup' = s.isGroup
    /\ item' = s.item
    /\ edges' = s.edges
    /\ nextId' = s.nextId
    /\ nextEdge' = s.nextEdge
    /\ group' = s.group
    /\ members' = s.members
    /\ parentItem' = s.parentItem
    /\ z' = s.z
    /\ maxZ' = s.maxZ
    /\ selectedNodes' = s.selectedNodes
    /\ selectedGroups' = s.selectedGroups
    /\ selected' = s.selected
    /\ selectionPolicy' = s.selectionPolicy
    /\ ports' = s.ports
    /\ nextPort' = s.nextPort
    /\ crashed' \in (IF s.ub THEN { TRUE, FALSE } ELSE { FALSE })
    /\ alignItems' = alignItems
    /\ last' = IF op \in Tracked
               THEN [ op |-> op, a |-> a, b |-> b, ret |-> s.ret, pre |-> pre ]
               ELSE [ op |-> "other", a |-> NULL, b |-> NULL, ret |-> 0, pre |-> {} ]

Init ==
    /\ nodes = << >>
    /\ isGroup = [ n \in Ids |-> FALSE ]
    /\ item = [ n \in Ids |-> FALSE ]
    /\ edges = {}
    /\ nextId = 0
    /\ nextEdge = 0
    /\ group = [ n \in Ids |-> NULL ]
    /\ members = [ n \in Ids |-> << >> ]
    /\ parentItem = [ n \in Ids |-> NULL ]
    /\ z = [ n \in Ids |-> 0 ]
    /\ maxZ = 0
    /\ selectedNodes = << >>
    /\ selectedGroups = << >>
    /\ selected = [ n \in Ids |-> FALSE ]
    /\ selectionPolicy = "SelectOnClick"
    /\ ports = [ p \in PortIds |-> NoPort ]
    /\ nextPort = 0
    /\ crashed = FALSE
    /\ alignItems = << >>
    /\ last = [ op |-> "init", a |-> NULL, b |-> NULL, ret |-> 0, pre |-> {} ]

\* The arguments a caller can pass: an owned entity, nullptr, or a live
\* entity that is not in the graph.
NodeArgs == Live(Cur) \cup { NULL, UNODE }
GroupArgs == LiveGroups(Cur) \cup { NULL, UGROUP }

\* What a call finds before it acts.
Tag(cond, name) == IF cond THEN { name } ELSE {}

RemoveNodePre(n) ==
    Tag(\E e \in edges : e.src = n /\ e.dst = n, "selfLoop")
    \cup Tag(\E e \in edges : (e.src = n) # (e.dst = n), "edge")
    \cup Tag(Contains(selectedNodes, n), "selected")

RemoveGroupPre(g) ==
    Tag(members[g] # << >>, "members")
    \cup Tag(\E e \in edges : \/ e.src = g /\ Contains(members[g], e.dst)
                              \/ e.dst = g /\ Contains(members[g], e.src),
             "memberEdgeToGroup")
    \cup Tag(\E e \in edges : /\ e.src # g /\ e.dst # g
                              /\ \/ Contains(members[g], e.src)
                                 \/ Contains(members[g], e.dst),
             "memberEdge")
    \cup Tag(Contains(selectedNodes, g), "selectedAsNode")
    \cup Tag(Contains(selectedGroups, g), "selectedAsGroup")

GroupNodePre(g, n) ==
    Tag(g = NULL \/ n = NULL, "null")
    \cup Tag(g = n /\ g # NULL, "same")
    \cup Tag(g \in { UGROUP } \/ n \in { UNODE }, "unowned")
    \cup Tag(n \in Ids /\ g \in Ids /\ group[n] \notin { NULL, g }, "regroup")
    \cup Tag(n \in Ids /\ group[n] = NULL, "ungrouped")

\* The call before was groupNode(g, n), accepted, on an ungrouped n.
UngroupNodePre(n) ==
    Tag(/\ last.op = "groupNode" /\ last.ret = 1 /\ last.b = n
        /\ "ungrouped" \in last.pre, "afterGroupNode")

RemoveSelectionPre ==
    Tag(Len(selectedNodes) >= 3, "threeNodes")
    \cup Tag(selectedNodes # << >>, "nodes")
    \cup Tag(selectedGroups # << >>, "groups")

\* What a bind call finds in the port, for the list of the port it appends to.
BindPre(e, p, types, list) ==
    IF e = NULL \/ p = NULL THEN {}
    ELSE Tag(ports[p].type \notin types, "wrongDirection")
         \cup Tag(ports[p].mult = "Single" /\ list # << >>, "singleOccupied")
         \cup Tag(/\ ports[p].mult = "Multiple" /\ list # << >>
                  /\ ports[p].type \in types, "multipleOccupied")

\* The lists of bound edge items stay within MaxBound.
WithinBound(s) ==
    \A p \in PortIds : /\ Len(s.ports[p].inEdges) <= MaxBound
                       /\ Len(s.ports[p].outEdges) <= MaxBound

InsertNode ==
    /\ ~crashed
    /\ \E o \in InsertNodeOutcomes \ { "topologyError" } :
        /\ o = "ok" => nextId < MaxEnt /\ maxZ < MaxZ
        /\ Commit(insertNode(Cur, o), "insertNode", NULL, NULL, {})

InsertNonVisualNode ==
    /\ ~crashed
    /\ nextId < MaxEnt
    /\ Commit(insertNonVisualNode(Cur), "insertNonVisualNode", NULL, NULL, {})

InsertGroup ==
    /\ ~crashed
    /\ \E o \in InsertGroupOutcomes \ { "noItem" } :
        /\ o = "ok" => nextId < MaxEnt /\ maxZ < MaxZ
        /\ Commit(insertGroup(Cur, o), "insertGroup", NULL, NULL, {})

InsertEdge ==
    /\ ~crashed
    /\ nextEdge < MaxEdges
    /\ \E a \in NodeArgs, b \in NodeArgs, o \in InsertEdgeOutcomes :
        Commit(insertEdge(Cur, a, b, o), "insertEdge", a, b, {})

RemoveNode ==
    /\ ~crashed
    /\ \E n \in Live(Cur) \cup { NULL } :
        Commit(removeNode(Cur, n), "removeNode", n, NULL,
               IF n = NULL THEN {} ELSE RemoveNodePre(n))

RemoveGroup ==
    /\ ~crashed
    /\ \E g \in LiveGroups(Cur) \cup { NULL } :
        Commit(removeGroup(Cur, g), "removeGroup", g, NULL,
               IF g = NULL THEN {} ELSE RemoveGroupPre(g))

RemoveEdge ==
    /\ ~crashed
    /\ \E e \in { f.id : f \in edges } \cup { NULL } :
        Commit(removeEdge(Cur, e), "removeEdge", e, NULL, {})

RemoveEdgeBetween ==
    /\ ~crashed
    /\ \E a \in Live(Cur) \cup { NULL }, b \in Live(Cur) \cup { NULL } :
        Commit(removeEdgeBetween(Cur, a, b), "removeEdgeBetween", NULL, NULL,
               Tag(Cardinality({ e \in edges : e.src = a /\ e.dst = b }) = 1, "single")
               \cup Tag(Cardinality({ e \in edges : e.src = a /\ e.dst = b }) > 1,
                        "parallel"))

\* last keeps the arguments of an accepted call only.
GroupNode ==
    /\ ~crashed
    /\ \E g \in GroupArgs, n \in NodeArgs :
        LET t == groupNode(Cur, g, n)
        IN  IF t.ret = 1 THEN Commit(t, "groupNode", g, n, GroupNodePre(g, n))
            ELSE Commit(t, "groupNode", NULL, NULL,
                        GroupNodePre(g, n) \cap { "null", "same", "unowned" })

UngroupNode ==
    /\ ~crashed
    /\ \E n \in Live(Cur) \cup { NULL }, g \in LiveGroups(Cur) \cup { NULL } :
        LET t == ungroupNode(Cur, n, g)
        IN  /\ t.maxZ <= MaxZ
            /\ IF t.ret = 1 THEN Commit(t, "ungroupNode", n, g, UngroupNodePre(n))
               ELSE Commit(t, "ungroupNode", NULL, NULL, {})

AddToSelectionNode ==
    /\ ~crashed
    /\ \E n \in Live(Cur) :
        Commit(addToSelectionNode(Cur, n), "addToSelectionNode", n, NULL, {})

AddToSelectionGroup ==
    /\ ~crashed
    /\ \E g \in LiveGroups(Cur) :
        Commit(addToSelectionGroup(Cur, g), "addToSelectionGroup", g, NULL, {})

RemoveSelection ==
    /\ ~crashed
    /\ Commit(removeSelection(Cur), "removeSelection", NULL, NULL, RemoveSelectionPre)

Clear ==
    /\ ~crashed
    /\ Commit(clear(Cur), "clear", NULL, NULL,
              Tag(selectedGroups # << >>, "groups"))

InsertPort ==
    /\ ~crashed
    /\ nextPort < MaxPorts
    /\ \E n \in Live(Cur) \cup { NULL }, ty \in PortTypes, m \in Multiplicities,
          o \in InsertPortOutcomes :
        Commit(insertPort(Cur, n, ty, m, o), "insertPort", n, NULL, {})

RemovePort ==
    /\ ~crashed
    /\ \E p \in LivePorts(Cur) \cup { NULL } :
        \E n \in (IF p = NULL THEN Live(Cur) ELSE { ports[p].node }) \cup { NULL } :
            Commit(removePort(Cur, n, p), "removePort", n, p, {})

EdgeArgs == { f.id : f \in edges } \cup { NULL }
PortArgs == LivePorts(Cur) \cup { NULL }

BindEdgeSource ==
    /\ ~crashed
    /\ \E e \in EdgeArgs, p \in PortArgs :
        LET t == bindEdgeSource(Cur, e, p)
        IN  /\ WithinBound(t)
            /\ Commit(t, "bindEdgeSource", NULL, NULL,
                      BindPre(e, p, { "Out", "InOut" },
                              IF p = NULL THEN << >> ELSE ports[p].outEdges))

BindEdgeDestination ==
    /\ ~crashed
    /\ \E e \in EdgeArgs, p \in PortArgs :
        LET t == bindEdgeDestination(Cur, e, p)
        IN  /\ WithinBound(t)
            /\ Commit(t, "bindEdgeDestination", NULL, NULL,
                      BindPre(e, p, { "In", "InOut" },
                              IF p = NULL THEN << >> ELSE ports[p].inEdges))

BindEdge ==
    /\ ~crashed
    /\ \E e \in EdgeArgs, p \in PortArgs, q \in PortArgs :
        LET t == bindEdge(Cur, e, p, q)
        IN  /\ WithinBound(t)
            /\ Commit(t, "bindEdge", NULL, NULL,
                      Tag(t.ports # ports, "bound"))

\* What a traversal meets: a node that comes back to itself, and a node in a
\* group that is in a group.
DfsPre(r, n) ==
    Tag(n \in r.marks, "cycle")
    \cup Tag(\E m \in r.marks : /\ group[m] # NULL /\ group[group[m]] # NULL
                                /\ group[m] \in r.marks /\ group[group[m]] \in r.marks,
             "nested")

CollectDfs ==
    /\ ~crashed
    /\ \E n \in Live(Cur), cg \in BOOLEAN :
        LET r == collectDfs(Cur, n, cg)
        IN  Commit([ Cur EXCEPT !.ret = Len(r.childs), !.ub = r.overflow ],
                   "collectDfs", n, IF cg THEN 1 ELSE 0, DfsPre(r, n))

CollectDfsAll ==
    /\ ~crashed
    /\ \E cg \in BOOLEAN :
        LET r == collectDfsAll(Cur, cg)
        IN  Commit([ Cur EXCEPT !.ret = Len(r.childs), !.ub = r.overflow ],
                   "collectDfsAll", NULL, IF cg THEN 1 ELSE 0, DfsPre(r, NULL))

\* The entities in a selection vector.
Selection(s) == Range(s.selectedNodes) \cup Range(s.selectedGroups)
PlainNodes(s) == { n \in Live(s) : ~s.isGroup[n] }
Bit(b) == IF b THEN 1 ELSE 0

\* What a selection call finds: the policy, whether the entity is in a
\* selection vector and whether another entity is.
SelectPre(n) ==
    { selectionPolicy }
    \cup Tag(n \in Selection(Cur), "wasSelected")
    \cup Tag(Selection(Cur) \ { n } # {}, "others")

SelectNode ==
    /\ ~crashed
    /\ \E n \in PlainNodes(Cur) \cup { NULL }, ctrl \in BOOLEAN :
        Commit(selectNode(Cur, n, ctrl), "selectNode", n, Bit(ctrl), SelectPre(n))

SelectGroup ==
    /\ ~crashed
    /\ \E g \in LiveGroups(Cur), ctrl \in BOOLEAN :
        Commit(selectGroup(Cur, g, ctrl), "selectGroup", g, Bit(ctrl), SelectPre(g))

SetNodeSelected ==
    /\ ~crashed
    /\ \E n \in PlainNodes(Cur) \cup { NULL }, sel \in BOOLEAN :
        Commit(setNodeSelected(Cur, n, sel), "setNodeSelected", n, Bit(sel),
               SelectPre(n))

SetSelectionPolicy ==
    /\ ~crashed
    /\ \E policy \in SelectionPolicies :
        Commit(setSelectionPolicy(Cur, policy), "setSelectionPolicy", NULL, NULL,
               { selectionPolicy, policy } \cup Tag(Selection(Cur) # {}, "others"))

ClearSelection ==
    /\ ~crashed
    /\ Commit(clearSelection(Cur), "clearSelection", NULL, NULL,
              Tag(selectedNodes # << >>, "nodes")
              \cup Tag(selectedGroups # << >>, "groups")
              \cup Tag(Cardinality(Selection(Cur)) >= 3, "three"))

RemoveFromSelectionNode ==
    /\ ~crashed
    /\ \E n \in Live(Cur) :
        Commit(removeFromSelectionNode(Cur, n), "removeFromSelection", n, NULL, {})

RemoveFromSelectionGroup ==
    /\ ~crashed
    /\ \E g \in LiveGroups(Cur) :
        Commit(removeFromSelectionGroup(Cur, g), "removeFromSelection", g, NULL, {})

\* Grouping and topology, on a graph whose delegates work.
Next ==
    \/ InsertNode
    \/ InsertGroup
    \/ InsertEdge
    \/ RemoveNode
    \/ RemoveGroup
    \/ RemoveEdge
    \/ RemoveEdgeBetween
    \/ GroupNode
    \/ UngroupNode
    \/ Clear

Spec == Init /\ [][Next]_vars

\* Insertion, removal and selection.
NextRemove ==
    \/ InsertNode
    \/ InsertGroup
    \/ InsertEdge
    \/ RemoveNode
    \/ RemoveGroup
    \/ RemoveEdge
    \/ RemoveEdgeBetween
    \/ AddToSelectionNode
    \/ AddToSelectionGroup
    \/ RemoveSelection
    \/ Clear

SpecRemove == Init /\ [][NextRemove]_vars

\* Ports and the binding of edges to them, on a graph of at most
\* MaxBindNodes nodes.
InsertBindNode ==
    /\ nextId < MaxBindNodes
    /\ InsertNode

NextBind ==
    \/ InsertBindNode
    \/ InsertEdge
    \/ RemoveEdge
    \/ InsertPort
    \/ RemovePort
    \/ BindEdgeSource
    \/ BindEdgeDestination
    \/ BindEdge

SpecBind == Init /\ [][NextBind]_vars

\* The selection manager: trySelect, setSelected, clearSelection and the
\* selection policy, on nodes and groups with and without item.
NextSelect ==
    \/ InsertNode
    \/ InsertNonVisualNode
    \/ InsertGroup
    \/ SelectNode
    \/ SelectGroup
    \/ SetNodeSelected
    \/ SetSelectionPolicy
    \/ ClearSelection

SpecSelect == Init /\ [][NextSelect]_vars

\* The selection manager with its add and remove paths called directly.
NextSelectPaths ==
    \/ InsertNode
    \/ InsertNonVisualNode
    \/ InsertGroup
    \/ SelectNode
    \/ SelectGroup
    \/ SetNodeSelected
    \/ SetSelectionPolicy
    \/ ClearSelection
    \/ AddToSelectionNode
    \/ AddToSelectionGroup
    \/ RemoveFromSelectionNode
    \/ RemoveFromSelectionGroup

SpecSelectPaths == Init /\ [][NextSelectPaths]_vars

\* The traversals, on graphs with edges and groups.
NextDfs ==
    \/ InsertNode
    \/ InsertGroup
    \/ InsertEdge
    \/ RemoveEdge
    \/ GroupNode
    \/ CollectDfs
    \/ CollectDfsAll

SpecDfs == Init /\ [][NextDfs]_vars

\* What sendToFront finds: whether the item is a group item, whether it is
\* in a group's container.
SendToFrontPre(n) ==
    Tag(isGroup[n], "group") \cup Tag(parentItem[n] # NULL, "nested")

SendToFront ==
    /\ ~crashed
    /\ \E n \in { m \in Live(Cur) : item[m] } \cup { NULL } :
        LET t == sendToFront(Cur, n)
        IN  /\ t.maxZ <= MaxFrontZ
            /\ Commit(t, "sendToFront", n, NULL,
                      IF n = NULL THEN {} ELSE SendToFrontPre(n))

FindMaxZ ==
    /\ ~crashed
    /\ Commit(findMaxZ(Cur), "findMaxZ", NULL, NULL, {})

\* The stacking manager, on nodes and groups that are inserted, grouped and
\* removed.
NextZ ==
    \/ InsertNode
    \/ InsertGroup
    \/ GroupNode
    \/ RemoveGroup
    \/ SendToFront
    \/ FindMaxZ

SpecZ == Init /\ [][NextZ]_vars

\* Grouping and ungrouping with the z high-water mark recomputed in between.
NextUngroup ==
    \/ InsertNode
    \/ InsertGroup
    \/ GroupNode
    \/ UngroupNode
    \/ FindMaxZ

SpecUngroup == Init /\ [][NextUngroup]_vars

InsertPortNode ==
    /\ nextId < MaxPortNodes
    /\ InsertNode

\* Ports removed under the edges bound to them as destination, between two
\* nodes.
NextPort ==
    \/ InsertPortNode
    \/ InsertEdge
    \/ InsertPort
    \/ BindEdgeDestination
    \/ RemovePort

SpecPort == Init /\ [][NextPort]_vars

\* Alignment: the list of item bounds is an input of the run, drawn from a
\* grid with negative and positive positions and sizes of one or two units.
AlignItems ==
    /\ ~crashed
    /\ \E op \in { "alignLeft", "alignRight", "alignTop", "alignBottom" } :
          /\ alignItems' = CASE op = "alignLeft" -> alignLeft(alignItems)
                              [] op = "alignRight" -> alignRight(alignItems)
                              [] op = "alignTop" -> alignTop(alignItems)
                              [] op = "alignBottom" -> alignBottom(alignItems)
          /\ last' = [ op |-> op, a |-> alignItems, b |-> NULL, ret |-> 0,
                       pre |-> {} ]
    /\ UNCHANGED << nodes, isGroup, item, edges, nextId, nextEdge, group, members,
                    parentItem, z, maxZ, selectedNodes, selectedGroups, selected,
                    selectionPolicy, ports, nextPort, crashed >>

InitAlign ==
    /\ nodes = << >>
    /\ isGroup = [ n \in Ids |-> FALSE ]
    /\ item = [ n \in Ids |-> FALSE ]
    /\ edges = {}
    /\ nextId = 0
    /\ nextEdge = 0
    /\ group = [ n \in Ids |-> NULL ]
    /\ members = [ n \in Ids |-> << >> ]
    /\ parentItem = [ n \in Ids |-> NULL ]
    /\ z = [ n \in Ids |-> 0 ]
    /\ maxZ = 0
    /\ selectedNodes = << >>
    /\ selectedGroups = << >>
    /\ selected = [ n \in Ids |-> FALSE ]
    /\ selectionPolicy = "SelectOnClick"
    /\ ports = [ p \in PortIds |-> NoPort ]
    /\ nextPort = 0
    /\ crashed = FALSE
    /\ \E n \in 0 .. MaxAlign :
          alignItems \in [ 1 .. n -> [ x : { -3, -1, 1 }, y : { -3, 1 },
                                       width : { 1, 2 }, height : { 1, 2 } ] ]
    /\ last = [ op |-> "init", a |-> NULL, b |-> NULL, ret |-> 0, pre |-> {} ]

NextAlign ==
    \/ AlignItems

SpecAlign == InitAlign /\ [][NextAlign]_vars

\* ------------------------------------------------------------------ claims
\* The groups that contain n, directly or transitively.
RECURSIVE Containers(_, _)
Containers(X, k) ==
    IF k = 0 THEN X
    ELSE Containers((X \cup { group[m] : m \in X }) \ { NULL }, k - 1)
ContainersOf(n) == Containers({ group[n] } \ { NULL }, MaxEnt)

\* C1: every edge of the store has a source and a destination that are in
\* the store, and after removeNode(n) no edge of the store is incident to n,
\* a self-loop on n included.
C1_NoDanglingEdge ==
    /\ \A e \in edges : e.src \in Range(nodes) /\ e.dst \in Range(nodes)
    /\ last.op = "removeNode" =>
          \A e \in edges : e.src # last.a /\ e.dst # last.a

\* removeNode has removed a node with a self-loop and an edge to another
\* node, and the store still holds an edge.
C1_Witness ==
    /\ last.op = "removeNode"
    /\ { "selfLoop", "edge" } \subseteq last.pre
    /\ nextEdge = MaxEdges

\* C2: every reference held in the node selection vector and in the group
\* selection vector designates an entity the store owns.
C2_SelectionOwned ==
    \A x \in Range(selectedNodes) \cup Range(selectedGroups) : x \in Range(nodes)

\* C3: after removeGroup(g) on a group selected as a group, neither selection
\* vector contains g.
C3_RemoveGroupDeselects ==
    (last.op = "removeGroup" /\ "selectedAsGroup" \in last.pre) =>
        /\ ~Contains(selectedNodes, last.a)
        /\ ~Contains(selectedGroups, last.a)

\* C4: removeGroup(g) leaves every member of g in the store, with its item,
\* with no owning group and with the edges it had, those incident to g apart.
C4_RemoveGroupKeepsMembers ==
    [][ (last'.op = "removeGroup" /\ last'.a # NULL) =>
            \A m \in Range(members[last'.a]) :
                /\ m \in Range(nodes')
                /\ item'[m] = item[m]
                /\ group'[m] = NULL
                /\ { e \in edges' : e.src = m \/ e.dst = m }
                     = { e \in edges : /\ e.src = m \/ e.dst = m
                                       /\ e.src # last'.a /\ e.dst # last'.a } ]_vars

\* removeGroup has removed a group with a member that had an edge to the
\* group and an edge to another node.
C4_Witness ==
    /\ last.op = "removeGroup"
    /\ { "members", "memberEdgeToGroup", "memberEdge" } \subseteq last.pre
    /\ edges # {}

\* C5: no group is its own container, directly or transitively.
C5_NoContainmentCycle ==
    \A n \in Ids : n \notin ContainersOf(n)

\* C6: n is in the member list of g exactly when g is the owning group of n,
\* and is in it once; so a node is a member of at most one group, and a node
\* grouped into another group has left the first.
C6_MembershipConsistent ==
    \A g \in Ids :
        /\ \A n \in Ids : Contains(members[g], n) <=> group[n] = g
        /\ \A i, j \in DOMAIN members[g] : members[g][i] = members[g][j] => i = j

\* groupNode has moved a node that was in another group.
C6_Witness ==
    /\ last.op = "groupNode" /\ last.ret = 1
    /\ "regroup" \in last.pre

\* C7: for an ungrouped node n and a group g other than n, groupNode(g, n)
\* followed by ungroupNode(n) leaves n ungrouped, the member list of g and
\* the in-edges and out-edges of n as they were.
C7_GroupUngroupRoundTrip ==
    \A g \in LiveGroups(Cur), n \in Live(Cur) :
        (g # n /\ group[n] = NULL) =>
            LET s1 == groupNode(Cur, g, n)
                s2 == ungroupNode(s1, n, NULL)
            IN  /\ s1.ret = 1 /\ s1.group[n] = g
                /\ s2.ret = 1
                /\ s2.group[n] = NULL
                /\ s2.members[g] = members[g]
                /\ InEdges(s2, n) = InEdges(Cur, n)
                /\ OutEdges(s2, n) = OutEdges(Cur, n)
                /\ s2.edges = edges

\* ungroupNode(n) has followed groupNode(g, n) on an ungrouped node n with
\* edges, a group keeping another member.
C7_Witness ==
    /\ last.op = "ungroupNode" /\ last.ret = 1
    /\ "afterGroupNode" \in last.pre
    /\ \E e \in edges : e.src = last.a \/ e.dst = last.a
    /\ \E g \in Ids : members[g] # << >>

\* C8: groupNode(group, node) returns false and changes neither the store,
\* nor a member list, nor an owning group, nor an edge when group or node is
\* null, when they are the same entity and when one of them is not owned by
\* the store; it returns true only when group is the owning group of node
\* after the call.
C8_GroupNodeRejects ==
    \A g \in GroupArgs, n \in NodeArgs \cup LiveGroups(Cur) :
        LET t == groupNode(Cur, g, n)
        IN  /\ (g = NULL \/ n = NULL \/ g = n \/ ~Owned(Cur, g) \/ ~Owned(Cur, n)) =>
                  /\ t.ret = 0
                  /\ t.nodes = nodes /\ t.members = members
                  /\ t.group = group /\ t.edges = edges
            /\ t.ret = 1 => t.group[n] = g

\* groupNode has rejected a group as its own member, in a store that holds
\* an edge and a grouped node.
C8_Witness ==
    /\ last.op = "groupNode" /\ last.ret = 0
    /\ "same" \in last.pre
    /\ edges # {}
    /\ \E n \in Ids : group[n] # NULL

\* The edge of the store designated by e.
EdgeOf(s, e) == CHOOSE f \in s.edges : f.id = e

\* The lists of bound edge items a port can hold, up to MaxBound.
BoundLists == UNION { [ 1 .. k -> EdgeIds ] : k \in 0 .. MaxBound }
PortRecs == [ live : { TRUE }, node : { 1 }, type : PortTypes,
              mult : Multiplicities, inEdges : BoundLists, outEdges : BoundLists ]

\* The two predicates computed by the code against their statement, on r.
BindableAsStated(r) ==
    /\ isEdgeSourceBindable(r) <=>
          /\ r.type \in { "Out", "InOut" }
          /\ \/ r.mult = "Multiple"
             \/ r.mult = "Single" /\ Len(r.outEdges) = 0
    /\ isEdgeDestinationBindable(r) <=>
          /\ r.type \in { "In", "InOut" }
          /\ \/ r.mult = "Multiple"
             \/ r.mult = "Single" /\ Len(r.inEdges) = 0
BindableAsStatedOnAll == \A r \in PortRecs : BindableAsStated(r)

\* C9: a Single port has at most one bound out-edge and at most one bound
\* in-edge; a bind call on a Single port that has a bound edge of the
\* direction changes neither the lists of the port nor the item the edge ends
\* at on that side; a Multiple port of the right direction takes the edge
\* whatever the number of edges it has.
C9_SinglePortAtMostOne ==
    /\ \A p \in LivePorts(Cur) :
          ports[p].mult = "Single" =>
              Len(ports[p].outEdges) <= 1 /\ Len(ports[p].inEdges) <= 1
    /\ \A e \in EdgeArgs \ { NULL }, p \in LivePorts(Cur) :
          /\ (ports[p].mult = "Single" /\ ports[p].outEdges # << >>) =>
                /\ LET t == bindEdgeSource(Cur, e, p)
                   IN  t.ports = ports /\ t.edges = edges
                /\ \A q \in PortArgs :
                      LET t == bindEdge(Cur, e, p, q)
                      IN  /\ t.ports[p].outEdges = ports[p].outEdges
                          /\ EdgeOf(t, e).srcPort = EdgeOf(Cur, e).srcPort
          /\ (ports[p].mult = "Single" /\ ports[p].inEdges # << >>) =>
                /\ LET t == bindEdgeDestination(Cur, e, p)
                   IN  t.ports = ports /\ t.edges = edges
                /\ \A q \in PortArgs :
                      LET t == bindEdge(Cur, e, q, p)
                      IN  /\ t.ports[p].inEdges = ports[p].inEdges
                          /\ EdgeOf(t, e).dstPort = EdgeOf(Cur, e).dstPort
          /\ (ports[p].mult = "Multiple" /\ ports[p].type \in { "Out", "InOut" }) =>
                LET t == bindEdgeSource(Cur, e, p)
                IN  /\ t.ports[p].outEdges = Append(ports[p].outEdges, e)
                    /\ EdgeOf(t, e).srcPort = p
          /\ (ports[p].mult = "Multiple" /\ ports[p].type \in { "In", "InOut" }) =>
                LET t == bindEdgeDestination(Cur, e, p)
                IN  /\ t.ports[p].inEdges = Append(ports[p].inEdges, e)
                    /\ EdgeOf(t, e).dstPort = p

\* bindEdgeSource has been rejected by a Single port that has its out-edge,
\* while a Multiple port has taken two out-edges.
C9_Witness ==
    /\ last.op = "bindEdgeSource" /\ "singleOccupied" \in last.pre
    /\ \E p \in LivePorts(Cur) :
          ports[p].mult = "Single" /\ Len(ports[p].outEdges) = 1
    /\ \E p \in LivePorts(Cur) :
          ports[p].mult = "Multiple" /\ Len(ports[p].outEdges) = 2
    /\ Cardinality(edges) = 2

\* C10: a port of type In has no bound out-edge and a port of type Out has
\* no bound in-edge, and an edge item ends at a port only on a side the type
\* of the port allows; isEdgeSourceBindable(p) is true exactly when p is Out
\* or InOut and is Multiple, or Single with no bound out-edge, and
\* isEdgeDestinationBindable(p) exactly when p is In or InOut and is Multiple,
\* or Single with no bound in-edge.
C10_DirectionRespected ==
    /\ \A p \in LivePorts(Cur) :
          /\ ports[p].type = "In" => ports[p].outEdges = << >>
          /\ ports[p].type = "Out" => ports[p].inEdges = << >>
    /\ \A e \in edges :
          /\ (e.srcPort # NULL /\ ports[e.srcPort].live) =>
                ports[e.srcPort].type \in { "Out", "InOut" }
          /\ (e.dstPort # NULL /\ ports[e.dstPort].live) =>
                ports[e.dstPort].type \in { "In", "InOut" }
    /\ \A p \in LivePorts(Cur) : BindableAsStated(ports[p])
    /\ BindableAsStatedOnAll

\* bindEdgeDestination has been rejected by a port of the wrong type, while
\* an Out port has a bound out-edge and an edge ends at a port.
C10_Witness ==
    /\ last.op = "bindEdgeDestination" /\ "wrongDirection" \in last.pre
    /\ \E p \in LivePorts(Cur) :
          ports[p].type = "Out" /\ ports[p].outEdges # << >>
    /\ \E e \in edges : e.dstPort # NULL

\* What a traversal follows from n: its out-nodes, and its members when
\* groups are collected.
DfsSucc(n, cg) ==
    Range(OutNodes(Cur, n))
    \cup (IF cg /\ isGroup[n] THEN Range(members[n]) ELSE {})
RECURSIVE DfsReach(_, _, _)
DfsReach(X, cg, k) ==
    IF k = 0 THEN X
    ELSE DfsReach(X \cup UNION { DfsSucc(m, cg) : m \in X }, cg, k - 1)

\* The output r of a traversal started on the nodes of from: it did not run
\* out of stack, holds no node twice, holds only nodes reachable from from,
\* and each node in it comes after a node that leads to it.
DfsOutputOk(r, from, cg) ==
    /\ ~r.overflow
    /\ \A i, j \in DOMAIN r.childs : r.childs[i] = r.childs[j] => i = j
    /\ Range(r.childs) \subseteq DfsReach(from, cg, MaxEnt)
    /\ \A i \in DOMAIN r.childs :
          \/ r.childs[i] \in from
          \/ \E j \in 1 .. i - 1 : r.childs[i] \in DfsSucc(r.childs[j], cg)

\* C11: collectDfs, from a node and from the root nodes, with and without the
\* members of groups, ends on every graph, cyclic ones and nested groups
\* included; its output holds each node at most once, in the order of the
\* first visits, and only nodes reachable from the start.
C11_DfsEndsVisitsOnce ==
    \A cg \in BOOLEAN :
        /\ \A n \in Live(Cur) :
              DfsOutputOk(collectDfs(Cur, n, cg), DfsSucc(n, cg), cg)
        /\ DfsOutputOk(collectDfsAll(Cur, cg), Range(RootNodes(Cur)), cg)

\* collectDfs with group members has run from a node on a cycle of out-edges
\* through a group nested in a group, and came back to the node.
C11_Witness ==
    /\ last.op = "collectDfs" /\ last.b = 1
    /\ { "cycle", "nested" } \subseteq last.pre
    /\ last.ret = MaxEnt

\* trySelect(entity, modifier): selectGroup on a group, selectNode on a node.
trySelect(s, n, ctrl) ==
    IF s.isGroup[n] THEN selectGroup(s, n, ctrl) ELSE selectNode(s, n, ctrl)

C13_ToggleOffReturnsFalse ==
    \A e \in Live(Cur), ctrl \in BOOLEAN :
        LET t == trySelect(Cur, e, ctrl)
        IN  /\ (selectionPolicy # "NoSelection" /\ e \in Selection(Cur) /\ ctrl) =>
                  /\ t.ret = 0
                  /\ e \notin Selection(t)
                  /\ ~t.selected[e]
                  /\ t.selectedNodes = RemoveAll(selectedNodes, e)
                  /\ t.selectedGroups = RemoveAll(selectedGroups, e)
            /\ t.ret = 1 <=> (e \notin Selection(Cur) /\ e \in Selection(t))

\* A selected group has been deselected by selectGroup with the modifier,
\* a node staying selected.
C13_Witness ==
    /\ last.op = "selectGroup" /\ last.b = 1 /\ last.ret = 0
    /\ "wasSelected" \in last.pre /\ "others" \in last.pre
    /\ last.a \notin Selection(Cur)
    /\ selectedNodes # << >>

C15_RemoveSelectionDeletesAll ==
    [][ last'.op = "removeSelection" =>
            /\ \A x \in Selection(Cur) : x \notin Range(nodes')
            /\ selectedNodes' = << >> /\ selectedGroups' = << >>
            /\ ~removeSelection(Cur).ub ]_vars

\* C16: after clearSelection both selection vectors are empty and no entity
\* that was in one of them has its selected flag set, although the
\* setSelected(false) of each entity takes it out of the vector during the loop.
C16_ClearSelectionClearsAll ==
    [][ last'.op = "clearSelection" =>
            /\ selectedNodes' = << >> /\ selectedGroups' = << >>
            /\ \A x \in Selection(Cur) : ~selected'[x]
            /\ ~clearSelection(Cur).ub ]_vars

\* C16 witness: clearSelection has run on three selected entities, nodes and
\* groups among them, and has left nothing selected.
C16_Witness ==
    /\ last.op = "clearSelection"
    /\ last.pre = { "nodes", "groups", "three" }
    /\ selectedNodes = << >> /\ selectedGroups = << >>
    /\ \A x \in Ids : ~selected[x]

NoDuplicates(v) == \A i, j \in 1..Len(v) : v[i] = v[j] => i = j

\* w comes from v by taking entities out and appending entities at the end:
\* the first k entities of w are entities of v in the order they have in v,
\* the others are not in v.
KeepsOrder(v, w) ==
    \E k \in 0..Len(w) :
        /\ \A i \in 1..k : Contains(v, w[i])
        /\ \A i \in (k + 1)..Len(w) : ~Contains(v, w[i])
        /\ \A i, j \in 1..k :
              i < j => \E a, b \in 1..Len(v) : a < b /\ v[a] = w[i] /\ v[b] = w[j]

\* C18: each selection vector holds no entity twice, and every call leaves
\* the entities it keeps in their order and puts an entity it adds at the
\* end, so the order of a vector is the order in which its entities were added.
C18_SelectionDistinctOrdered ==
    /\ [](NoDuplicates(selectedNodes) /\ NoDuplicates(selectedGroups))
    /\ [][ /\ KeepsOrder(selectedNodes, selectedNodes')
           /\ KeepsOrder(selectedGroups, selectedGroups') ]_vars

\* C18 witness: an entity already selected has been selected again, and the
\* node vector still holds two nodes, the one inserted later first.
C18_Witness ==
    /\ last.op = "setNodeSelected" /\ last.b = 1
    /\ "wasSelected" \in last.pre
    /\ Len(selectedNodes) = 2
    /\ selectedNodes[1] > selectedNodes[2]

\* C19: sendToFront on an item that is a child of the graph container (an
\* ungrouped node, or a group that is in no group) leaves it with a z
\* strictly greater than the z of every other child of the graph container.
C19_RootItemOnTop ==
    [][ ( /\ last'.op = "sendToFront"
          /\ last'.a # NULL
          /\ parentItem[last'.a] = NULL ) =>
            \A m \in ChildItems(Cur, NULL) \ { last'.a } : z'[m] < z'[last'.a] ]_vars

\* C20: sendToFront on the item of a node that is in the container of group
\* G leaves G with the z that follows the greatest z of the children of the
\* container G is in.
C20_NodeRaisesItsGroup ==
    [][ ( /\ last'.op = "sendToFront"
          /\ last'.a # NULL
          /\ ~isGroup[last'.a]
          /\ parentItem[last'.a] # NULL ) =>
            LET G == parentItem[last'.a]
            IN  z'[G] = maxChildsZ(Cur, parentItem[G]) + 1 ]_vars

\* The groups whose containers hold the item of n, directly or through
\* other groups.
RECURSIVE Hosts(_, _)
Hosts(X, k) ==
    IF k = 0 THEN X
    ELSE Hosts((X \cup { parentItem[m] : m \in X }) \ { NULL }, k - 1)
HostsOf(n) == Hosts({ parentItem[n] } \ { NULL }, MaxEnt)

\* C21: after sendToFront on an item, the item and every group around it
\* has a z strictly greater than the z of every other child of the container
\* it is in, whatever the calls before.
C21_FrontAtEveryLevel ==
    [][ (last'.op = "sendToFront" /\ last'.a # NULL) =>
            \A x \in { last'.a } \cup HostsOf(last'.a) :
                \A m \in ChildItems(Cur, parentItem[x]) \ { x } : z'[m] < z'[x] ]_vars

\* C22: sendToFront on an item changes the z of the item and of the groups
\* around it only, and lowers the z of no entity.
C22_FrontTouchesOwnChainOnly ==
    [][ (last'.op = "sendToFront" /\ last'.a # NULL) =>
            \A m \in Ids :
                /\ m \notin { last'.a } \cup HostsOf(last'.a) => z'[m] = z[m]
                /\ z'[m] >= z[m] ]_vars

\* C23: no call lowers maxZ, and nextMaxZ() leaves maxZ, the value it
\* returns, exactly 1 above the maxZ it found.
C23_MaxZMonotonic ==
    /\ [][ maxZ' >= maxZ ]_vars
    /\ [](nextMaxZ(Cur).maxZ = maxZ + 1)

\* C24: an ungroupNode(n) that returns true on a node with an item leaves n
\* without owning group and out of the member list of its former group, with
\* a z that is the new maxZ and is strictly greater than the z of the group
\* it was taken from.
C24_UngroupMintsTopZ ==
    [][ (last'.op = "ungroupNode" /\ last'.ret = 1 /\ item[last'.a]) =>
            LET n == last'.a
                g == group[n]
            IN  /\ group'[n] = NULL
                /\ ~Contains(members'[g], n)
                /\ z'[n] = maxZ'
                /\ item[g] => z'[n] > z'[g] ]_vars

\* C25: ungroupNode(node, group) returns false and leaves owning groups,
\* member lists, item parents, edges, z values and maxZ as they are when node
\* is null, when node has no owning group and when group is not null and is
\* not the owning group of node; with a null group it ungroups node from its
\* owning group.
C25_UngroupNodeRejects ==
    \A n \in Live(Cur) \cup { NULL }, g \in LiveGroups(Cur) \cup { NULL } :
        LET t == ungroupNode(Cur, n, g)
            rejected == \/ n = NULL
                        \/ group[n] = NULL
                        \/ g # NULL /\ g # group[n]
        IN  /\ rejected =>
                  /\ t.ret = 0
                  /\ t.group = group /\ t.members = members
                  /\ t.parentItem = parentItem /\ t.edges = edges
                  /\ t.z = z /\ t.maxZ = maxZ
            /\ (~rejected /\ g = NULL) =>
                  /\ t.ret = 1
                  /\ t.group[n] = NULL
                  /\ ~Contains(t.members[group[n]], n)

\* C25 witness: ungroupNode has returned false in a store where a node is
\* in a group, another group exists and there is an edge.
C25_Witness ==
    /\ last.op = "ungroupNode" /\ last.ret = 0
    /\ \E n \in Live(Cur), g \in LiveGroups(Cur) :
          group[n] # NULL /\ g # group[n]
    /\ edges # {}

\* C26: removePort(node, port), port a port of node's item and every edge
\* bound to port an edge of node on the side it is bound, leaves no edge of
\* the store with port as source or destination item, however many were
\* bound to it, leaves the edges of node not bound to port in the store,
\* and takes port out of the ports of node.
C26_RemovePortUnbinds ==
    \A p \in LivePorts(Cur) :
        LET node == ports[p].node
            t == removePort(Cur, node, p)
        IN  ( /\ item[node]
              /\ \A e \in edges : /\ e.dstPort = p => e.dst = node
                                  /\ e.srcPort = p => e.src = node ) =>
                /\ \A e \in t.edges : e.srcPort # p /\ e.dstPort # p
                /\ ~t.ports[p].live
                /\ \A e \in edges : (e.srcPort # p /\ e.dstPort # p) => e \in t.edges

\* C27: an insertNode that returns false, whatever made it fail, leaves the
\* nodes of the store, maxZ and the two selection vectors as they were.
C27_FailedInsertKeepsState ==
    \A outcome \in InsertNodeOutcomes :
        LET t == insertNode(Cur, outcome)
        IN  t.ret = 0 =>
                /\ t.nodes = nodes
                /\ t.maxZ = maxZ
                /\ t.selectedNodes = selectedNodes
                /\ t.selectedGroups = selectedGroups

\* The edges of s from a to b.
EdgesFromTo(s, a, b) == { e \in s.edges : e.src = a /\ e.dst = b }

\* C28: hasEdge(a, b) is true exactly when the store holds an edge with
\* source a and destination b, and false on a null argument; removeEdge(a, b)
\* removes one edge from a to b and no other edge, so that hasEdge(a, b) is
\* false after it when there was one such edge and true when there were more.
C28_HasEdgeDirected ==
    \A a \in Live(Cur) \cup { NULL }, b \in Live(Cur) \cup { NULL } :
        LET t == removeEdgeBetween(Cur, a, b)
            gone == edges \ t.edges
        IN  /\ hasEdge(Cur, a, b) <=>
                  (a # NULL /\ b # NULL /\ EdgesFromTo(Cur, a, b) # {})
            /\ t.edges \subseteq edges
            /\ gone \subseteq EdgesFromTo(Cur, a, b)
            /\ Cardinality(gone) = (IF hasEdge(Cur, a, b) THEN 1 ELSE 0)
            /\ gone \cap (InEdges(t, b) \cup OutEdges(t, a)) = {}
            /\ hasEdge(t, a, b) <=>
                  (a # NULL /\ b # NULL /\ Cardinality(EdgesFromTo(Cur, a, b)) > 1)

\* C28 witness: removeEdge(a, b) has removed one of several edges from a to
\* b, the store still holds an edge between two nodes and none the other way.
C28_Witness ==
    /\ last.op = "removeEdgeBetween"
    /\ "parallel" \in last.pre
    /\ \E e \in edges : e.src # e.dst /\ EdgesFromTo(Cur, e.dst, e.src) = {}

C30_AncestorsReachGroups ==
    \A n \in Live(Cur), cg \in BOOLEAN :
        LET r == collectAncestorsDfs(Cur, n, cg)
        IN  /\ ~r.overflow
            /\ \A i, j \in DOMAIN r.childs : r.childs[i] = r.childs[j] => i = j
            /\ ContainersOf(n) \subseteq Range(r.childs)

\* C31: isAncestor(node, candidate) is true exactly when the candidate is in
\* the list collectAncestorsDfs returns for the node.
C31_IsAncestorIsReachability ==
    \A n \in Live(Cur), c \in Live(Cur), cg \in BOOLEAN :
        isAncestor(Cur, n, c)
            <=> c \in Range(collectAncestorsDfs(Cur, n, cg).childs)

\* C32: for every set of items containing the point, graphChildAt answers
\* null exactly when no child of the graph container contains the point;
\* otherwise the answer contains the point, lies in or is the topmost child
\* of the graph container that contains the point, and is the deepest such
\* item: when it is a group, none of the group's children contains the point.
C32_HitTestDeepest ==
    \A hits \in SUBSET { n \in Live(Cur) : item[n] } :
        LET r == graphChildAt(Cur, hits)
            rootHits == ChildItems(Cur, NULL) \cap hits
        IN  /\ (r = NULL) <=> (rootHits = {})
            /\ r # NULL =>
                /\ r \in hits
                /\ \E top \in rootHits :
                      /\ \A o \in rootHits \ { top } :
                            z[o] < z[top] \/ (z[o] = z[top] /\ o < top)
                      /\ top \in { r } \cup HostsOf(r)
                /\ isGroup[r] => ChildItems(Cur, r) \cap hits = {}

\* C33: on a list of at least two items, alignLeft puts every x at the least
\* x of the list, alignTop every y at the least y, alignRight every right
\* edge at the greatest right edge and alignBottom every bottom edge at the
\* greatest bottom edge, for negative coordinates as well; the sizes and the
\* other coordinate stay as they were.
C33_AlignToExtreme ==
    LET in == last.a
        out == alignItems
        Is == DOMAIN out
    IN  (last.op \in { "alignLeft", "alignRight", "alignTop", "alignBottom" }
            /\ Len(in) >= 2) =>
        /\ Len(out) = Len(in)
        /\ \A i \in Is : /\ out[i].width = in[i].width
                         /\ out[i].height = in[i].height
        /\ last.op = "alignLeft" =>
              \A i \in Is : /\ out[i].y = in[i].y
                            /\ \E k \in Is : out[i].x = in[k].x
                            /\ \A k \in Is : out[i].x <= in[k].x
        /\ last.op = "alignTop" =>
              \A i \in Is : /\ out[i].x = in[i].x
                            /\ \E k \in Is : out[i].y = in[k].y
                            /\ \A k \in Is : out[i].y <= in[k].y
        /\ last.op = "alignRight" =>
              \A i \in Is :
                  /\ out[i].y = in[i].y
                  /\ \E k \in Is : out[i].x + out[i].width = in[k].x + in[k].width
                  /\ \A k \in Is : out[i].x + out[i].width >= in[k].x + in[k].width
        /\ last.op = "alignBottom" =>
              \A i \in Is :
                  /\ out[i].x = in[i].x
                  /\ \E k \in Is : out[i].y + out[i].height = in[k].y + in[k].height
                  /\ \A k \in Is : out[i].y + out[i].height >= in[k].y + in[k].height

\* C34: right after clear() the graph owns no node, no group and no edge,
\* and neither the node selection nor the group selection holds an entity.
C34_ClearEmptiesSelections ==
    last.op = "clear" =>
        /\ nodes = << >>
        /\ edges = {}
        /\ selectedNodes = << >>
        /\ selectedGroups = << >>

C36_FlagMatchesSelection ==
    \A n \in Live(Cur) :
        item[n] =>
            (selected[n] <=>
                (Contains(selectedNodes, n) \/ Contains(selectedGroups, n)))

\* C37: under every policy, trySelect without the modifier on an entity that
\* is in a selection vector returns false and leaves both selection vectors
\* and every selected flag as they are, other entities being selected or not.
C37_ClickOnSelectedKeeps ==
    \A e \in Selection(Cur) :
        LET t == trySelect(Cur, e, FALSE)
        IN  /\ t.ret = 0
            /\ t.selectedNodes = selectedNodes
            /\ t.selectedGroups = selectedGroups
            /\ t.selected = selected

\* C37 witness: under SelectOnClick a selected entity has been clicked without
\* the modifier while another entity was selected; false was returned and
\* both are still selected.
C37_Witness ==
    /\ last.op \in { "selectNode", "selectGroup" }
    /\ last.ret = 0 /\ last.b = 0
    /\ { "SelectOnClick", "wasSelected", "others" } \subseteq last.pre
    /\ last.a \in Selection(Cur)
    /\ Selection(Cur) \ { last.a } # {}

\* C38: bindEdge(edge, outPort, inPort) binds both ends or none: after the
\* call either the source item of the edge is outPort, its destination item
\* is inPort and the edge is in the out-edge list of outPort and in the
\* in-edge list of inPort, or no list of a port and no end of an edge has
\* changed.
C38_BindEdgeAllOrNothing ==
    \A e \in { f.id : f \in edges }, p \in LivePorts(Cur), q \in LivePorts(Cur) :
        LET t == bindEdge(Cur, e, p, q)
            f == CHOOSE g \in t.edges : g.id = e
        IN  \/ /\ f.srcPort = p
               /\ f.dstPort = q
               /\ Contains(t.ports[p].outEdges, e)
               /\ Contains(t.ports[q].inEdges, e)
            \/ /\ t.ports = ports
               /\ t.edges = edges

\* C39: in every state an edge of the graph is in the in-edge list of a port
\* exactly when the destination item of the edge is that port, and in its
\* out-edge list exactly when the source item of the edge is that port, and
\* no list holds an edge twice.
C39_PortListsMatchEdgeEnds ==
    \A p \in LivePorts(Cur) :
        /\ NoDuplicates(ports[p].inEdges)
        /\ NoDuplicates(ports[p].outEdges)
        /\ \A e \in edges :
              /\ Contains(ports[p].inEdges, e.id) <=> e.dstPort = p
              /\ Contains(ports[p].outEdges, e.id) <=> e.srcPort = p

\* The nodes from which some node of X is reached over edges, X included.
RECURSIVE EdgeAncestors(_, _)
EdgeAncestors(X, k) ==
    IF k = 0 THEN X
    ELSE EdgeAncestors(X \cup { e.src : e \in { f \in edges : f.dst \in X } }, k - 1)

====
